---- MODULE Spec2Model ----
(***************************************************************************)
(* A model of CommandHandler.h: the ParameterLookup view over a mutable    *)
(* character buffer, the CommandHandler line buffer with its nested        *)
(* CommandLookup table, and the startup commands kept in EEPROM.           *)
(*                                                                         *)
(* Characters are their ASCII codes.  A char array is a function from      *)
(* 0..n to codes; a pointer into the array is an index, the null pointer   *)
(* is NULLPTR.  An array element that was never written holds UNINIT.      *)
(***************************************************************************)
EXTENDS Integers, Sequences, FiniteSets, TLC

\* ------------------------------------------------------------------------
\* Characters
\* ------------------------------------------------------------------------
NUL == 0
TAB == 9
LF == 10
CR == 13
SP == 32

NULLPTR == -1
UNINIT == -2

\* ------------------------------------------------------------------------
\* Bounds
\* ------------------------------------------------------------------------
\* Longest command string a ParameterLookup is constructed over in SpecView.
MaxLen == 5
\* Largest non-negative index queried on a view in SpecView.
MaxIdx == 3

\* The letter the keywords and parameters of the model are written with, in
\* upper case; its lower case; the next lower-case letter.
UpperA == 65
LowerA == IF UpperA >= 65 /\ UpperA <= 90 THEN UpperA + 32 ELSE UpperA
LowerB == LowerA + 1

\* Characters of the command strings of SpecView.
ViewChars == {TAB, SP, LowerA, LowerB}

\* ------------------------------------------------------------------------
\* C strings
\* ------------------------------------------------------------------------
RECURSIVE CStrAt(_, _)
\* The C string that starts at index ptr of buf: the chars up to the first NUL.
CStrAt(buf, ptr) ==
  IF buf[ptr] = NUL THEN <<>> ELSE <<buf[ptr]>> \o CStrAt(buf, ptr + 1)

\* The array of n+1 chars that holds the string s, NUL-filled after it.
ArrayOf(s, n) ==
  [i \in 0..n |-> IF i < Len(s) THEN s[i + 1] ELSE NUL]

\* All strings over chars of length at most n.
StringsUpTo(chars, n) ==
  UNION {[1..k -> chars] : k \in 0..n}

\* ------------------------------------------------------------------------
\* ParameterLookup.  A view P is the record of the object's fields:
\*   _theCommand (the array pointed to), _endOfString, _stringHasNULLS, _size
\* ------------------------------------------------------------------------
RECURSIVE subSpacesLoop(_, _, _)
\* The while loop of subSpacesForNULL.
subSpacesLoop(buf, loop, size) ==
  IF buf[loop] = NUL
  THEN [buf |-> buf, loop |-> loop, size |-> size]
  ELSE IF buf[loop] = SP \/ buf[loop] = TAB
       THEN LET nbuf == [buf EXCEPT ![loop] = NUL]
            IN subSpacesLoop(nbuf, loop + 1,
                 IF loop > 0 /\ nbuf[loop - 1] # NUL THEN size + 1 ELSE size)
       ELSE subSpacesLoop(buf, loop + 1, size)

subSpacesForNULLKeepSize(P) ==
  LET r == subSpacesLoop(P._theCommand, 0,
                         IF P._endOfString = NULLPTR THEN 1 ELSE P._size)
  IN [_theCommand |-> r.buf, _endOfString |-> r.loop,
      _stringHasNULLS |-> TRUE, _size |-> r.size]

subSpacesForNULL(P) ==
  LET r == subSpacesLoop(P._theCommand, 0, 1)
  IN [_theCommand |-> r.buf, _endOfString |-> r.loop,
      _stringHasNULLS |-> TRUE, _size |-> r.size]

RECURSIVE restoreSpacesLoop(_, _, _)
\* The while loop of restoreSpaces.
restoreSpacesLoop(buf, loop, end) ==
  IF ~(loop < end) THEN buf
  ELSE restoreSpacesLoop(
         IF buf[loop] = NUL THEN [buf EXCEPT ![loop] = SP] ELSE buf,
         loop + 1, end)

restoreSpaces(P) ==
  [P EXCEPT !._theCommand = restoreSpacesLoop(P._theCommand, 0, P._endOfString),
            !._stringHasNULLS = FALSE]

RECURSIVE getParamPtrLoopEveryNull(_, _, _, _)
\* getParamPtrLoop, but every NUL passed counts as a delimiter, also one that
\* follows another NUL.
getParamPtrLoopEveryNull(buf, end, paramPtr, count) ==
  IF ~(paramPtr < end) THEN NULLPTR
  ELSE IF count = 0 /\ buf[paramPtr] # NUL THEN paramPtr
  ELSE getParamPtrLoopEveryNull(buf, end, paramPtr + 1,
         IF buf[paramPtr] = NUL /\ paramPtr > 0
         THEN count - 1 ELSE count)

RECURSIVE getParamPtrLoop(_, _, _, _)
\* The while loop of getParamPtr; the pointer returned.
getParamPtrLoop(buf, end, paramPtr, count) ==
  IF ~(paramPtr < end) THEN NULLPTR
  ELSE IF count = 0 /\ buf[paramPtr] # NUL THEN paramPtr
  ELSE getParamPtrLoop(buf, end, paramPtr + 1,
         IF buf[paramPtr] = NUL /\ paramPtr > 0 /\ buf[paramPtr - 1] # NUL
         THEN count - 1 ELSE count)

\* getParamPtr returns the pointer and may change the view: [P, ptr].
getParamPtr(P, idx) ==
  LET Q == IF ~P._stringHasNULLS THEN subSpacesForNULL(P) ELSE P
  IN [P |-> Q,
      ptr |-> getParamPtrLoop(Q._theCommand, Q._endOfString, 0, idx)]

\* ParameterLookup(char* commandStr)
ParameterLookup(commandStr) ==
  subSpacesForNULL([_theCommand |-> commandStr, _endOfString |-> NULLPTR,
                    _stringHasNULLS |-> FALSE, _size |-> 0])

\* operator[], but index -2 returns without restoring the spaces.
OperatorIndexNoRestore(P, idx) ==
  IF idx = -1
  THEN [P |-> IF P._stringHasNULLS THEN restoreSpaces(P) ELSE P, ptr |-> 0]
  ELSE IF idx = -2
  THEN getParamPtr(P, 1)
  ELSE getParamPtr(IF ~P._stringHasNULLS THEN subSpacesForNULL(P) ELSE P, idx)

\* operator[](int idx): the pointer returned and the view afterwards.
OperatorIndex(P, idx) ==
  IF idx = -1
  THEN [P |-> IF P._stringHasNULLS THEN restoreSpaces(P) ELSE P, ptr |-> 0]
  ELSE IF idx = -2
  THEN LET r == getParamPtr(P, 1)
       IN [P |-> restoreSpaces(r.P), ptr |-> r.ptr]
  ELSE getParamPtr(IF ~P._stringHasNULLS THEN subSpacesForNULL(P) ELSE P, idx)

\* unsigned int size() const
size(P) == P._size

\* ------------------------------------------------------------------------
\* 32-bit unsigned words, kept as two 16-bit halves [hi, lo]
\* ------------------------------------------------------------------------
Half == 2 ^ 16

Word(hi, lo) == [hi |-> hi, lo |-> lo]

RECURSIVE Xor(_, _)
\* Bitwise exclusive or of two naturals.
Xor(a, b) ==
  IF a = 0 THEN b
  ELSE IF b = 0 THEN a
  ELSE ((a + b) % 2) + 2 * Xor(a \div 2, b \div 2)

\* w >> 1
ShiftRight1(w) ==
  Word(w.hi \div 2, (w.lo \div 2) + (w.hi % 2) * (Half \div 2))

\* a ^ b
XorWord(a, b) == Word(Xor(a.hi, b.hi), Xor(a.lo, b.lo))

\* ~w
NotWord(w) == Word(Half - 1 - w.hi, Half - 1 - w.lo)

\* 0xEDB88320
CrcPoly == Word(60856, 33568)

\* int tolower(int)
tolower(c) == IF c >= 65 /\ c <= 90 THEN c + 32 ELSE c

RECURSIVE crc32bBits(_, _)
\* for (j = 7; j >= 0; j--) { mask = -(crc & 1); crc = (crc >> 1) ^ (POLY & mask); }
crc32bBits(crc, j) ==
  IF j < 0 THEN crc
  ELSE crc32bBits(
         IF crc.lo % 2 = 1 THEN XorWord(ShiftRight1(crc), CrcPoly)
         ELSE ShiftRight1(crc),
         j - 1)

RECURSIVE crc32bLoopNoLower(_, _, _, _)
\* crc32bLoop, but the byte is taken as it is, without tolower.
crc32bLoopNoLower(buf, str, i, crc) ==
  IF buf[str + i] = NUL \/ crc.lo < 0 THEN crc
  ELSE crc32bLoopNoLower(buf, str, i + 1,
         crc32bBits(Word(crc.hi, Xor(crc.lo, buf[str + i])), 7))

RECURSIVE crc32bLoop(_, _, _, _)
\* while (str[i] != 0) { byte = tolower(str[i]); crc = crc ^ byte; ...; i = i + 1; }
\* (crc.lo < 0 never holds: the test only makes the evaluation of crc eager)
crc32bLoop(buf, str, i, crc) ==
  IF buf[str + i] = NUL \/ crc.lo < 0 THEN crc
  ELSE crc32bLoop(buf, str, i + 1,
         crc32bBits(Word(crc.hi, Xor(crc.lo, tolower(buf[str + i]))), 7))

\* static uint32_t crc32b(const char *str), str a pointer into buf
crc32b(buf, str) ==
  NotWord(crc32bLoop(buf, str, 0, Word(Half - 1, Half - 1)))

\* The hash of a keyword given as a literal.
HashOf(s) == crc32b(ArrayOf(s, Len(s)), 0)

\* ------------------------------------------------------------------------
\* CommandHandler<array_size>
\* ------------------------------------------------------------------------
\* #define COMMAND_SIZE_MAX (num chars to reserve in memory for buffer)
COMMAND_SIZE_MAX == 4
\* template <size_t array_size>
array_size == 2

\* The bytes fed to addCommandChar.  Keywords arrive in upper case and are
\* registered in lower case, so every dispatch goes through crc32b's
\* tolower.
InputChars == {LF, CR, SP, UpperA}

\* enum class CommandHandlerReturn (the members the model uses)
NO_ERROR == "NO_ERROR"
COMMAND_NOT_FOUND == "COMMAND_NOT_FOUND"
WRONG_NUM_OF_PARAMS == "WRONG_NUM_OF_PARAMS"
EMPTY_COMMAND_STRING == "EMPTY_COMMAND_STRING"
NO_COMMAND_WAITING == "NO_COMMAND_WAITING"
OUT_OF_MEM == "OUT_OF_MEM"
BUFFER_FULL == "BUFFER_FULL"
COMMAND_TOO_LONG == "COMMAND_TOO_LONG"
UNKNOWN_ERROR == "UNKNOWN_ERROR"
\* No value: the call did not return.
NO_RETURN == "NO_RETURN"

\* The commandFunction handlers of the application, by number.  What a
\* handler does with the view it is passed: the indices it queries, in order.
HandlerQueries(f) ==
  IF f = 1 THEN <<>>
  ELSE IF f = 2 THEN <<-1>>
  ELSE <<1>>

RECURSIVE RunQueries(_, _)
\* The view after the handler made the queries qs on it.
RunQueries(P, qs) ==
  IF qs = <<>> THEN P
  ELSE RunQueries(OperatorIndex(P, Head(qs)).P, Tail(qs))

\* f(params): the view after the call of handler f.
CallHandler(f, P) == RunQueries(P, HandlerQueries(f))

\* struct dataStruct { hash; n; f; }
DataStruct(hash, n, f) == [hash |-> hash, n |-> n, f |-> f]

\* An element of _commands that was never assigned.
UninitDataStruct == DataStruct(Word(0, 0), UNINIT, UNINIT)

\* The commands the application registers.
RegEntries ==
  { DataStruct(HashOf(<<LowerA>>), 1, 1),
    DataStruct(HashOf(<<LowerA>>), -1, 2),
    DataStruct(HashOf(<<LowerA, LowerA>>), 0, 3) }

\* What the read through a null pointer in crc32b(params[0]) can produce:
\* a trap, or a hash of whatever bytes lie at address 0.
NullReadOutcomes ==
  {[crash |-> TRUE, hash |-> Word(0, 0)]}
  \cup {[crash |-> FALSE, hash |-> h] :
          h \in {HashOf(<<LowerA>>), HashOf(<<LowerA, LowerA>>), HashOf(<<>>)}}

\* CommandLookup() : _commandsIdx(0)
CommandLookup ==
  [_commands |-> [i \in 0..(array_size - 1) |-> UninitDataStruct],
   _commandsIdx |-> 0]

\* registerCommand, but on a full table the entry replaces the last one.
registerCommandOverwriteLast(T, keyHash, num_of_parameters, pointer_to_function) ==
  IF T._commandsIdx >= array_size
  THEN [T |-> [T EXCEPT !._commands[array_size - 1] =
                 DataStruct(keyHash, num_of_parameters, pointer_to_function)],
        ret |-> OUT_OF_MEM]
  ELSE [T |-> [_commands |-> [T._commands EXCEPT ![T._commandsIdx] =
                   DataStruct(keyHash, num_of_parameters, pointer_to_function)],
               _commandsIdx |-> T._commandsIdx + 1],
        ret |-> NO_ERROR]

\* CommandLookup::registerCommand(long keyHash, int num_of_parameters, f)
registerCommand(T, keyHash, num_of_parameters, pointer_to_function) ==
  IF T._commandsIdx >= array_size
  THEN [T |-> T, ret |-> OUT_OF_MEM]
  ELSE [T |-> [_commands |-> [T._commands EXCEPT ![T._commandsIdx] =
                   DataStruct(keyHash, num_of_parameters, pointer_to_function)],
               _commandsIdx |-> T._commandsIdx + 1],
        ret |-> NO_ERROR]

RECURSIVE findLoopDefaultFirst(_, _, _)
\* findLoop, but foundIdx starts at 0 instead of -1.
findLoopDefaultFirst(T, reqHash, i) ==
  IF ~(i < T._commandsIdx) THEN 0
  ELSE IF reqHash = T._commands[i].hash THEN i
  ELSE findLoopDefaultFirst(T, reqHash, i + 1)

RECURSIVE findLoopFromEnd(_, _, _)
\* findLoop, but the entries are searched from the last one registered.
findLoopFromEnd(T, reqHash, i) ==
  IF ~(i < T._commandsIdx) THEN -1
  ELSE IF reqHash = T._commands[T._commandsIdx - 1 - i].hash
  THEN T._commandsIdx - 1 - i
  ELSE findLoopFromEnd(T, reqHash, i + 1)

RECURSIVE findLoop(_, _, _)
\* for (int i = 0; i < _commandsIdx; i++) if (reqHash == _commands[i].hash) ...
findLoop(T, reqHash, i) ==
  IF ~(i < T._commandsIdx) THEN -1
  ELSE IF reqHash = T._commands[i].hash THEN i
  ELSE findLoop(T, reqHash, i + 1)

\* The result of callStoredCommand: the view afterwards, the value returned
\* (NO_RETURN if the program trapped), the handlers invoked.
CallResult(P, ret, called) ==
  [P |-> P, ret |-> ret, called |-> called, crashed |-> ret = NO_RETURN]

\* callStoredCommandEntry, but the arity is compared with size() instead of
\* size() - 1.
callStoredCommandEntryOffByOne(params, d) ==
  IF d.n # size(params) /\ d.n # -1
  THEN CallResult(params, WRONG_NUM_OF_PARAMS, <<>>)
  ELSE CallResult(CallHandler(d.f, params), NO_ERROR, <<d.f>>)

\* callStoredCommandEntry, but the handler is called before the arity check.
callStoredCommandEntryCallFirst(params, d) ==
  IF d.n # size(params) - 1 /\ d.n # -1
  THEN CallResult(CallHandler(d.f, params), WRONG_NUM_OF_PARAMS, <<d.f>>)
  ELSE CallResult(CallHandler(d.f, params), NO_ERROR, <<d.f>>)

\* callStoredCommand from "const dataStruct& d = _commands[foundIdx]" on: the
\* arity check and the call.  d.n != params.size() - 1 compares as unsigned;
\* size() >= 1, and d.n = -1 converts to the largest unsigned value, which no
\* size() - 1 here equals.
callStoredCommandEntry(params, d) ==
  IF d.n # size(params) - 1 /\ d.n # -1
  THEN CallResult(params, WRONG_NUM_OF_PARAMS, <<>>)
  ELSE CallResult(CallHandler(d.f, params), NO_ERROR, <<d.f>>)

\* callStoredCommand from "if (foundIdx == -1)" on.
callStoredCommandFound(T, params, foundIdx) ==
  IF foundIdx = -1
  THEN CallResult(params, COMMAND_NOT_FOUND, <<>>)
  ELSE callStoredCommandEntry(params, T._commands[foundIdx])

\* callStoredCommand once params[0] is evaluated: r0 is the pointer it
\* returned and the view afterwards.  A null pointer makes crc32b read through
\* it; ub is what that read produces.
callStoredCommandKeyword(T, r0, ub) ==
  IF r0.ptr = NULLPTR /\ ub.crash
  THEN CallResult(r0.P, NO_RETURN, <<>>)
  ELSE callStoredCommandFound(T, r0.P,
         findLoop(T,
                  IF r0.ptr = NULLPTR THEN ub.hash
                  ELSE crc32b(r0.P._theCommand, r0.ptr),
                  0))

\* CommandLookup::callStoredCommand(const ParameterLookup& params)
callStoredCommand(T, params, ub) ==
  callStoredCommandKeyword(T, OperatorIndex(params, 0), ub)

\* A handler object H is the record of the fields
\*   _inputBuffer, _bufferLength, _bufferFull, _command_too_long

\* CommandHandler(): the state after construction.
CommandHandler ==
  [_inputBuffer |-> [i \in 0..COMMAND_SIZE_MAX |-> IF i = 0 THEN NUL ELSE UNINIT],
   _bufferLength |-> 0,
   _bufferFull |-> FALSE,
   _command_too_long |-> FALSE]

\* clearBuffer, but the too-long flag is left as it is.
clearBufferKeepTooLong(H) ==
  [_inputBuffer |-> [H._inputBuffer EXCEPT ![0] = NUL],
   _bufferLength |-> 0,
   _bufferFull |-> FALSE,
   _command_too_long |-> H._command_too_long]

\* void clearBuffer()
clearBuffer(H) ==
  [_inputBuffer |-> [H._inputBuffer EXCEPT ![0] = NUL],
   _bufferLength |-> 0,
   _bufferFull |-> FALSE,
   _command_too_long |-> FALSE]

\* bool bufferFull()
bufferFull(H) == H._bufferFull

\* bool commandWaiting()
commandWaiting(H) == bufferFull(H)

\* addCommandChar, but without the test of _bufferFull at its start.
addCommandCharNoFullTest(H, c) ==
  IF c = LF
  THEN [H |-> [H EXCEPT !._bufferFull = TRUE], ret |-> UNKNOWN_ERROR]
  ELSE IF c = CR
  THEN [H |-> H, ret |-> NO_ERROR]
  ELSE IF H._command_too_long \/ H._bufferLength >= COMMAND_SIZE_MAX - 1
  THEN [H |-> [H EXCEPT !._command_too_long = TRUE], ret |-> COMMAND_TOO_LONG]
  ELSE [H |-> [H EXCEPT
                 !._inputBuffer = [H._inputBuffer EXCEPT
                                     ![H._bufferLength] = c,
                                     ![H._bufferLength + 1] = NUL],
                 !._bufferLength = H._bufferLength + 1],
        ret |-> NO_ERROR]

\* addCommandChar, but a byte is refused only once COMMAND_SIZE_MAX bytes are
\* stored, not COMMAND_SIZE_MAX - 1.
addCommandCharOneMore(H, c) ==
  IF H._bufferFull
  THEN [H |-> H, ret |-> BUFFER_FULL]
  ELSE IF c = LF
  THEN [H |-> [H EXCEPT !._bufferFull = TRUE], ret |-> UNKNOWN_ERROR]
  ELSE IF c = CR
  THEN [H |-> H, ret |-> NO_ERROR]
  ELSE IF H._command_too_long \/ H._bufferLength >= COMMAND_SIZE_MAX
  THEN [H |-> [H EXCEPT !._command_too_long = TRUE], ret |-> COMMAND_TOO_LONG]
  ELSE [H |-> [H EXCEPT
                 !._inputBuffer = [H._inputBuffer EXCEPT
                                     ![H._bufferLength] = c,
                                     ![H._bufferLength + 1] = NUL],
                 !._bufferLength = H._bufferLength + 1],
        ret |-> NO_ERROR]

\* addCommandChar, but a carriage return is treated as a normal char.
addCommandCharStoreCR(H, c) ==
  IF H._bufferFull
  THEN [H |-> H, ret |-> BUFFER_FULL]
  ELSE IF c = LF
  THEN [H |-> [H EXCEPT !._bufferFull = TRUE], ret |-> UNKNOWN_ERROR]
  ELSE IF H._command_too_long \/ H._bufferLength >= COMMAND_SIZE_MAX - 1
  THEN [H |-> [H EXCEPT !._command_too_long = TRUE], ret |-> COMMAND_TOO_LONG]
  ELSE [H |-> [H EXCEPT
                 !._inputBuffer = [H._inputBuffer EXCEPT
                                     ![H._bufferLength] = c,
                                     ![H._bufferLength + 1] = NUL],
                 !._bufferLength = H._bufferLength + 1],
        ret |-> NO_ERROR]

\* addCommandChar, but the stored byte is not followed by a NUL.
addCommandCharNoTerminator(H, c) ==
  IF H._bufferFull
  THEN [H |-> H, ret |-> BUFFER_FULL]
  ELSE IF c = LF
  THEN [H |-> [H EXCEPT !._bufferFull = TRUE], ret |-> UNKNOWN_ERROR]
  ELSE IF c = CR
  THEN [H |-> H, ret |-> NO_ERROR]
  ELSE IF H._command_too_long \/ H._bufferLength >= COMMAND_SIZE_MAX - 1
  THEN [H |-> [H EXCEPT !._command_too_long = TRUE], ret |-> COMMAND_TOO_LONG]
  ELSE [H |-> [H EXCEPT
                 !._inputBuffer = [H._inputBuffer EXCEPT ![H._bufferLength] = c],
                 !._bufferLength = H._bufferLength + 1],
        ret |-> NO_ERROR]

\* CommandHandlerReturn addCommandChar(const char c): [H, ret]
addCommandChar(H, c) ==
  IF H._bufferFull
  THEN [H |-> H, ret |-> BUFFER_FULL]
  ELSE IF c = LF
  THEN [H |-> [H EXCEPT !._bufferFull = TRUE], ret |-> UNKNOWN_ERROR]
  ELSE IF c = CR
  THEN [H |-> H, ret |-> NO_ERROR]
  ELSE IF H._command_too_long \/ H._bufferLength >= COMMAND_SIZE_MAX - 1
  THEN [H |-> [H EXCEPT !._command_too_long = TRUE], ret |-> COMMAND_TOO_LONG]
  ELSE [H |-> [H EXCEPT
                 !._inputBuffer = [H._inputBuffer EXCEPT
                                     ![H._bufferLength] = c,
                                     ![H._bufferLength + 1] = NUL],
                 !._bufferLength = H._bufferLength + 1],
        ret |-> NO_ERROR]

\* executeCommandError, but without the test for an empty string.
executeCommandErrorNoEmptyTest(H) ==
  LET e1 == IF ~commandWaiting(H) THEN NO_COMMAND_WAITING ELSE NO_ERROR
  IN IF H._command_too_long THEN COMMAND_TOO_LONG ELSE e1

\* The value of error before the dispatch block of executeCommand.
executeCommandError(H) ==
  LET e1 == IF ~commandWaiting(H) THEN NO_COMMAND_WAITING ELSE NO_ERROR
      e2 == IF H._command_too_long THEN COMMAND_TOO_LONG ELSE e1
  IN IF H._bufferLength = 0 /\ e2 = NO_ERROR THEN EMPTY_COMMAND_STRING ELSE e2

\* The result of executeCommand: the handler afterwards, the value returned,
\* the handlers invoked.
ExecuteResult(H, ret, called) ==
  [H |-> H, ret |-> ret, called |-> called, crashed |-> ret = NO_RETURN]

\* executeCommand after the dispatch r: the view wrote to _inputBuffer, then
\* clearBuffer() and return, unless the program trapped.
executeCommandDispatched(H, r) ==
  IF r.crashed
  THEN ExecuteResult([H EXCEPT !._inputBuffer = r.P._theCommand],
                     NO_RETURN, r.called)
  ELSE ExecuteResult(clearBuffer([H EXCEPT !._inputBuffer = r.P._theCommand]),
                     r.ret, r.called)

\* executeCommand from "if (error == NO_ERROR)" on.
executeCommandFrom(H, T, ub, error) ==
  IF error = NO_ERROR
  THEN executeCommandDispatched(H,
         callStoredCommand(T, ParameterLookup(H._inputBuffer), ub))
  ELSE ExecuteResult(clearBuffer(H), error, <<>>)

\* CommandHandlerReturn executeCommand()
executeCommand(H, T, ub) ==
  executeCommandFrom(H, T, ub, executeCommandError(H))

\* ------------------------------------------------------------------------
\* Startup commands in EEPROM.  E is the EEPROM from
\* EEPROM_STORED_COMMAND_LOCATION on, an array of bytes; flag is the byte at
\* EEPROM_STORED_COMMAND_FLAG_LOCATION.
\* ------------------------------------------------------------------------
\* #define EEPROM_SIZE_MAX (max space used in EEPROM); as in the source, more
\* than the command buffer holds.
EEPROM_SIZE_MAX == COMMAND_SIZE_MAX + 2

\* ';'
SEMI == 59
\* A byte of EEPROM that was never written.
ERASED == 255
\* (char)true, (char)false
FLAG_TRUE == 1
FLAG_FALSE == 0
EEPROM_FULL == "EEPROM_FULL"

RECURSIVE appendLoop(_, _)
\* while (eeprom_ptr < EEPROM_SIZE_MAX - 2) { if (read == 0) break; eeprom_ptr++; }
appendLoop(E, eeprom_ptr) ==
  IF ~(eeprom_ptr < EEPROM_SIZE_MAX - 2) THEN eeprom_ptr
  ELSE IF E[eeprom_ptr] = NUL THEN eeprom_ptr
  ELSE appendLoop(E, eeprom_ptr + 1)

RECURSIVE storeLoop(_, _, _, _)
\* The copy loop of storeStartupCommand: [E, eeprom_ptr] after it.
storeLoop(E, command, commandIdx, eeprom_ptr) ==
  IF ~(commandIdx <= Len(command) /\ eeprom_ptr < EEPROM_SIZE_MAX - 2)
  THEN [E |-> E, eeprom_ptr |-> eeprom_ptr]
  ELSE storeLoop(
         [E EXCEPT ![eeprom_ptr] =
            IF command[commandIdx] # SEMI THEN command[commandIdx] ELSE LF],
         command, commandIdx + 1, eeprom_ptr + 1)

\* storeStartupCommand after the copy loop r: terminate with newline and NUL.
storeTerminate(r) ==
  [r.E EXCEPT ![r.eeprom_ptr] = LF, ![r.eeprom_ptr + 1] = NUL]

\* storeStartupCommand from "const int availableSpace" on.
storeStartupCommandAt(E, flag, command, eeprom_ptr) ==
  IF Len(command) > EEPROM_SIZE_MAX - 2 - eeprom_ptr
  THEN [E |-> E, flag |-> flag, ret |-> EEPROM_FULL]
  ELSE [E |-> storeTerminate(storeLoop(E, command, 1, eeprom_ptr)),
        flag |-> FLAG_TRUE, ret |-> NO_ERROR]

\* CommandHandlerReturn storeStartupCommand(const char* command, bool append)
storeStartupCommand(E, flag, command, append) ==
  storeStartupCommandAt(E, flag, command,
                        IF append THEN appendLoop(E, 0) ELSE 0)

\* bool wipeStartupCommand(): the flag afterwards.
wipeStartupCommand(flag) == FLAG_FALSE

\* The result of executeStartupCommands: the handler afterwards, the value
\* of result, the bytes passed to addCommandChar, the values the
\* executeCommand calls returned, the handlers invoked.
StartupResult(H, ret, ingested, results, called) ==
  [H |-> H, ret |-> ret, ingested |-> ingested, results |-> results,
   called |-> called, crashed |-> ret = NO_RETURN]

\* "result = executeCommand()" returned r, after the byte c was queued.
startupExecuted(S, c, r) ==
  StartupResult(r.H, r.ret, Append(S.ingested, c), Append(S.results, r.ret),
                S.called \o r.called)

\* "if (commandWaiting()) result = executeCommand()" on the handler H1 that
\* addCommandChar(c) left.
startupQueued(T, ub, S, c, H1) ==
  IF commandWaiting(H1)
  THEN startupExecuted(S, c, executeCommand(H1, T, ub))
  ELSE StartupResult(H1, S.ret, Append(S.ingested, c), S.results, S.called)

RECURSIVE startupLoopNoStop(_, _, _, _, _)
\* startupLoop, but bytes are queued whatever the earlier commands returned.
startupLoopNoStop(T, E, ub, idx, S) ==
  IF S.crashed THEN S
  ELSE IF idx >= EEPROM_SIZE_MAX
  THEN StartupResult(addCommandChar(S.H, LF).H, S.ret,
                     Append(S.ingested, LF), S.results, S.called)
  ELSE IF E[idx] = NUL THEN S
  ELSE startupLoopNoStop(T, E, ub, idx + 1,
         startupQueued(T, ub, S, E[idx], addCommandChar(S.H, E[idx]).H))

RECURSIVE startupLoop(_, _, _, _, _)
\* The while (true) loop of executeStartupCommands; idx is numCharsRead and
\* EEPROM_idx - EEPROM_STORED_COMMAND_LOCATION.
startupLoop(T, E, ub, idx, S) ==
  IF S.crashed THEN S
  ELSE IF idx >= EEPROM_SIZE_MAX
  THEN StartupResult(addCommandChar(S.H, LF).H, S.ret,
                     Append(S.ingested, LF), S.results, S.called)
  ELSE IF E[idx] = NUL THEN S
  ELSE IF S.ret = NO_ERROR
  THEN startupLoop(T, E, ub, idx + 1,
         startupQueued(T, ub, S, E[idx], addCommandChar(S.H, E[idx]).H))
  ELSE startupLoop(T, E, ub, idx + 1, S)

\* CommandHandlerReturn executeStartupCommands()
executeStartupCommands(H, T, E, flag, ub) ==
  IF flag # FLAG_TRUE
  THEN StartupResult(H, NO_COMMAND_WAITING, <<>>, <<>>, <<>>)
  ELSE startupLoop(T, E, ub, 0, StartupResult(H, NO_ERROR, <<>>, <<>>, <<>>))

\* ------------------------------------------------------------------------
\* State
\*
\* An action binds the result of the call it makes with \E over a one-element
\* set, so that the call is evaluated once.
\* ------------------------------------------------------------------------
VARIABLES
  \* CommandHandler fields
  _inputBuffer, _bufferLength, _bufferFull, _command_too_long,
  \* CommandLookup fields (_lookupList)
  _commands, _commandsIdx,
  \* the last call on the handler: its name, the value it returned, the
  \* handlers it invoked, and whether the program trapped in it
  lastOp, lastResult, called, crashed,
  \* a second handler with the same table that is constructed anew after
  \* every executeCommand call and receives the same calls
  fresh, freshResult, freshCalled,
  \* history: ordinary bytes offered since construction or the last
  \* executeCommand call (saturating); whether a byte of the line being
  \* received (or received and waiting) was rejected as too long; whether the
  \* last executeCommand call reported a waiting line as too long, and whether
  \* the call just made is an executeCommand that follows such a call; the
  \* first COMMAND_SIZE_MAX - 1 of the ordinary bytes counted by fed
  fed, lineRejected, lastExecOverflow, followsOverflow, line,
  \* the EEPROM: the stored command area and the flag byte; if the last call
  \* was executeStartupCommands, the bytes it passed to addCommandChar and the
  \* values its executeCommand calls returned
  eeprom, eepromFlag, ingested, results,
  \* history: whether wipeStartupCommand has been called, and the indices of
  \* the stored command area written by storeStartupCommand since the last
  \* such call
  wiped, storedSinceWipe,
  \* ParameterLookup fields
  _theCommand, _endOfString, _stringHasNULLS, _size,
  \* the string the view was constructed over, the last index queried on it
  \* and the pointer that query returned
  orig, lastIdx, lastPtr

handlerVars == <<_inputBuffer, _bufferLength, _bufferFull, _command_too_long>>
tableVars == <<_commands, _commandsIdx>>
callVars == <<lastOp, lastResult, called, crashed>>
freshVars == <<fresh, freshResult, freshCalled>>
histVars == <<fed, lineRejected, lastExecOverflow, followsOverflow, line>>
viewVars == <<_theCommand, _endOfString, _stringHasNULLS, _size,
              orig, lastIdx, lastPtr>>
startupVars == <<eeprom, eepromFlag, ingested, results, wiped,
                 storedSinceWipe>>
vars == <<handlerVars, tableVars, callVars, freshVars, histVars, startupVars,
          viewVars>>

\* The handler object and its table as records.
Handler ==
  [_inputBuffer |-> _inputBuffer, _bufferLength |-> _bufferLength,
   _bufferFull |-> _bufferFull, _command_too_long |-> _command_too_long]

Table == [_commands |-> _commands, _commandsIdx |-> _commandsIdx]

\* The view object as a record.
View ==
  [_theCommand |-> _theCommand, _endOfString |-> _endOfString,
   _stringHasNULLS |-> _stringHasNULLS, _size |-> _size]

SetHandler(H) ==
  /\ _inputBuffer' = H._inputBuffer
  /\ _bufferLength' = H._bufferLength
  /\ _bufferFull' = H._bufferFull
  /\ _command_too_long' = H._command_too_long

SetView(P) ==
  /\ _theCommand' = P._theCommand
  /\ _endOfString' = P._endOfString
  /\ _stringHasNULLS' = P._stringHasNULLS
  /\ _size' = P._size

\* The value of lastIdx before any query.
NoIdx == NULLPTR - 2
FedMax == COMMAND_SIZE_MAX + 1

InitHandler ==
  /\ _inputBuffer = CommandHandler._inputBuffer
  /\ _bufferLength = CommandHandler._bufferLength
  /\ _bufferFull = CommandHandler._bufferFull
  /\ _command_too_long = CommandHandler._command_too_long
  /\ _commands = CommandLookup._commands
  /\ _commandsIdx = CommandLookup._commandsIdx
  /\ lastOp = "none" /\ lastResult = NO_RETURN /\ called = <<>>
  /\ crashed = FALSE
  /\ fresh = CommandHandler /\ freshResult = NO_RETURN /\ freshCalled = <<>>
  /\ fed = 0 /\ lineRejected = FALSE /\ line = <<>>
  /\ lastExecOverflow = FALSE /\ followsOverflow = FALSE
  /\ eeprom = [i \in 0..(EEPROM_SIZE_MAX - 1) |-> ERASED]
  /\ eepromFlag = ERASED
  /\ wiped = FALSE /\ storedSinceWipe = {}
  /\ ingested = <<>> /\ results = <<>>

\* No view exists.
InitNoView ==
  /\ _theCommand = ArrayOf(<<>>, 0)
  /\ _endOfString = 0 /\ _stringHasNULLS = FALSE /\ _size = 0
  /\ orig = <<>> /\ lastIdx = NoIdx /\ lastPtr = NULLPTR

\* ------------------------------------------------------------------------
\* The handler: addCommandChar, executeCommand, registerCommand
\* ------------------------------------------------------------------------
Init == InitHandler /\ InitNoView

AddCommandChar(c) ==
  /\ ~crashed
  /\ \E r \in {addCommandChar(Handler, c)}, fr \in {addCommandChar(fresh, c)} :
        /\ SetHandler(r.H)
        /\ lastOp' = "addCommandChar" /\ lastResult' = r.ret /\ called' = <<>>
        /\ fresh' = fr.H /\ freshResult' = fr.ret /\ freshCalled' = <<>>
        /\ fed' = IF ~_bufferFull /\ c # LF /\ c # CR /\ fed < FedMax
                  THEN fed + 1 ELSE fed
        /\ lineRejected' = (lineRejected \/ r.ret = COMMAND_TOO_LONG)
        /\ line' = IF ~_bufferFull /\ c # LF /\ c # CR
                        /\ Len(line) < COMMAND_SIZE_MAX - 1
                   THEN Append(line, c) ELSE line
  /\ followsOverflow' = FALSE
  /\ ingested' = <<>> /\ results' = <<>>
  /\ UNCHANGED <<tableVars, crashed, lastExecOverflow, eeprom, eepromFlag,
                 wiped, storedSinceWipe, viewVars>>

\* The outcomes of the null read to consider for a call of executeCommand
\* on H: all of them when the call makes the read, one (unused) otherwise.
NullReadChoices(H) ==
  IF executeCommandError(H) = NO_ERROR
     /\ OperatorIndex(ParameterLookup(H._inputBuffer), 0).ptr = NULLPTR
  THEN NullReadOutcomes
  ELSE {[crash |-> FALSE, hash |-> Word(0, 0)]}

ExecuteCommand ==
  /\ ~crashed
  /\ \E ub \in NullReadChoices(Handler) :
       \E r \in {executeCommand(Handler, Table, ub)},
          fr \in {executeCommand(fresh, Table, ub)} :
          /\ SetHandler(r.H)
          /\ lastOp' = "executeCommand" /\ lastResult' = r.ret
          /\ called' = r.called /\ crashed' = r.crashed
          /\ fresh' = CommandHandler
          /\ freshResult' = fr.ret /\ freshCalled' = fr.called
          /\ lastExecOverflow' = (_bufferFull /\ r.ret = COMMAND_TOO_LONG)
  /\ followsOverflow' = lastExecOverflow
  /\ fed' = 0 /\ line' = <<>>
  /\ lineRejected' = IF _bufferFull THEN FALSE ELSE lineRejected
  /\ ingested' = <<>> /\ results' = <<>>
  /\ UNCHANGED <<tableVars, eeprom, eepromFlag, wiped,
                 storedSinceWipe, viewVars>>

RegisterCommand(e) ==
  /\ ~crashed
  /\ \E r \in {registerCommand(Table, e.hash, e.n, e.f)} :
        /\ _commands' = r.T._commands
        /\ _commandsIdx' = r.T._commandsIdx
        /\ lastOp' = "registerCommand" /\ lastResult' = r.ret /\ called' = <<>>
        /\ freshResult' = r.ret /\ freshCalled' = <<>>
  /\ followsOverflow' = FALSE
  /\ ingested' = <<>> /\ results' = <<>>
  /\ UNCHANGED <<handlerVars, crashed, fresh, fed, lineRejected,
                 lastExecOverflow, line, eeprom, eepromFlag, wiped,
                 storedSinceWipe, viewVars>>

Next ==
  \/ \E c \in InputChars : AddCommandChar(c)
  \/ ExecuteCommand
  \/ \E e \in RegEntries : RegisterCommand(e)

Spec == Init /\ [][Next]_vars

\* ------------------------------------------------------------------------
\* The handler fed keywords in either letter case
\* ------------------------------------------------------------------------
\* The bytes fed to addCommandChar in SpecHash.
HashInputChars == {LF, LowerA, UpperA}

\* The commands the application registers in SpecHash: those without
\* parameters.
HashRegEntries == {e \in RegEntries : e.n = 0}

NextHash ==
  \/ \E c \in HashInputChars : AddCommandChar(c)
  \/ ExecuteCommand
  \/ \E e \in HashRegEntries : RegisterCommand(e)

SpecHash == Init /\ [][NextHash]_vars

\* ------------------------------------------------------------------------
\* Startup commands: store, wipe, replay
\* ------------------------------------------------------------------------
\* Longest command passed to storeStartupCommand.
MaxStore == 2

\* The characters of the commands passed to storeStartupCommand.
StoreChars == {UpperA, SEMI}

\* The commands the application registers in SpecStartup: those that take
\* any number of parameters.
StartupRegEntries == {e \in RegEntries : e.n = -1}

\* The outcomes of the null read to consider for a call of
\* executeStartupCommands: all of them when the call makes the read.
StartupNullReadChoices ==
  LET trap == [crash |-> TRUE, hash |-> Word(0, 0)]
  IN IF executeStartupCommands(Handler, Table, eeprom, eepromFlag, trap).crashed
     THEN NullReadOutcomes
     ELSE {[crash |-> FALSE, hash |-> Word(0, 0)]}

\* The indices of the stored command area that a successful
\* storeStartupCommand call writes: the bytes of the command, the newline
\* and the NUL, from the index at which it starts.
StoredAt(E, command, append) ==
  LET eeprom_ptr == IF append THEN appendLoop(E, 0) ELSE 0
  IN eeprom_ptr..(eeprom_ptr + Len(command) + 1)

StoreStartupCommand(command, append) ==
  /\ ~crashed
  /\ \E r \in {storeStartupCommand(eeprom, eepromFlag, command, append)} :
        /\ eeprom' = r.E /\ eepromFlag' = r.flag
        /\ lastOp' = "storeStartupCommand" /\ lastResult' = r.ret
        /\ freshResult' = r.ret
        /\ storedSinceWipe' =
             IF wiped /\ r.ret = NO_ERROR
             THEN storedSinceWipe \cup StoredAt(eeprom, command, append)
             ELSE storedSinceWipe
        /\ UNCHANGED wiped
  /\ called' = <<>> /\ freshCalled' = <<>> /\ followsOverflow' = FALSE
  /\ ingested' = <<>> /\ results' = <<>>
  /\ UNCHANGED <<handlerVars, tableVars, crashed, fresh, fed, lineRejected,
                 lastExecOverflow, line, viewVars>>

WipeStartupCommand ==
  /\ ~crashed
  /\ eepromFlag' = wipeStartupCommand(eepromFlag)
  /\ wiped' = TRUE /\ storedSinceWipe' = {}
  /\ lastOp' = "wipeStartupCommand" /\ lastResult' = NO_ERROR
  /\ freshResult' = NO_ERROR
  /\ called' = <<>> /\ freshCalled' = <<>> /\ followsOverflow' = FALSE
  /\ ingested' = <<>> /\ results' = <<>>
  /\ UNCHANGED <<handlerVars, tableVars, crashed, fresh, fed, lineRejected,
                 lastExecOverflow, line, eeprom, viewVars>>

ExecuteStartupCommands ==
  /\ ~crashed
  /\ \E ub \in StartupNullReadChoices :
       \E r \in {executeStartupCommands(Handler, Table, eeprom, eepromFlag, ub)} :
          /\ SetHandler(r.H)
          /\ lastOp' = "executeStartupCommands" /\ lastResult' = r.ret
          /\ called' = r.called /\ crashed' = r.crashed
          /\ ingested' = r.ingested /\ results' = r.results
          /\ fresh' = r.H /\ freshResult' = r.ret /\ freshCalled' = r.called
          /\ fed' = IF r.H._bufferFull THEN fed ELSE 0
          /\ line' = IF r.H._bufferFull THEN line ELSE <<>>
          /\ lineRejected' = r.H._command_too_long
  /\ lastExecOverflow' = FALSE /\ followsOverflow' = FALSE
  /\ UNCHANGED <<tableVars, eeprom, eepromFlag, wiped,
                 storedSinceWipe, viewVars>>

\* The state once setup has constructed the handler and registered a
\* command; the EEPROM was never written.
InitStartup ==
  /\ _inputBuffer = CommandHandler._inputBuffer
  /\ _bufferLength = CommandHandler._bufferLength
  /\ _bufferFull = CommandHandler._bufferFull
  /\ _command_too_long = CommandHandler._command_too_long
  /\ \E e \in StartupRegEntries :
       LET r == registerCommand(CommandLookup, e.hash, e.n, e.f)
       IN /\ _commands = r.T._commands
          /\ _commandsIdx = r.T._commandsIdx
          /\ lastResult = r.ret /\ freshResult = r.ret
  /\ lastOp = "registerCommand" /\ called = <<>> /\ crashed = FALSE
  /\ fresh = CommandHandler /\ freshCalled = <<>>
  /\ fed = 0 /\ lineRejected = FALSE /\ line = <<>>
  /\ lastExecOverflow = FALSE /\ followsOverflow = FALSE
  /\ eeprom = [i \in 0..(EEPROM_SIZE_MAX - 1) |-> ERASED]
  /\ eepromFlag = ERASED
  /\ wiped = FALSE /\ storedSinceWipe = {}
  /\ ingested = <<>> /\ results = <<>>
  /\ InitNoView

NextStartup ==
  \/ \E command \in StringsUpTo(StoreChars, MaxStore) :
       \E append \in BOOLEAN : StoreStartupCommand(command, append)
  \/ WipeStartupCommand
  \/ ExecuteStartupCommands

SpecStartup == InitStartup /\ [][NextStartup]_vars

\* ------------------------------------------------------------------------
\* The view: construction over a string, then operator[] queries
\* ------------------------------------------------------------------------
InitView ==
  /\ InitHandler
  /\ orig \in StringsUpTo(ViewChars, MaxLen)
  /\ LET P == ParameterLookup(ArrayOf(orig, MaxLen))
     IN /\ _theCommand = P._theCommand
        /\ _endOfString = P._endOfString
        /\ _stringHasNULLS = P._stringHasNULLS
        /\ _size = P._size
  /\ lastIdx = NoIdx /\ lastPtr = NULLPTR

Query(idx) ==
  /\ LET r == OperatorIndex(View, idx)
     IN /\ SetView(r.P)
        /\ lastPtr' = r.ptr
  /\ lastIdx' = idx
  /\ UNCHANGED <<handlerVars, tableVars, callVars, freshVars, histVars,
                 startupVars, orig>>

\* params[-1]
QueryWhole == Query(-1)

\* params[-2]
QueryParams == Query(-2)

\* params[i], i >= 0
QueryToken == \E i \in 0..MaxIdx : Query(i)

NextView == QueryWhole \/ QueryParams \/ QueryToken

SpecView == InitView /\ [][NextView]_vars

\* ------------------------------------------------------------------------
\* Properties of the view (SpecView)
\* ------------------------------------------------------------------------
IsDelimiter(c) == c = SP \/ c = TAB

RECURSIVE TokensRec(_, _, _, _)
TokensRec(s, i, cur, acc) ==
  IF i > Len(s)
  THEN IF cur = <<>> THEN acc ELSE Append(acc, cur)
  ELSE IF IsDelimiter(s[i])
       THEN TokensRec(s, i + 1, <<>>, IF cur = <<>> THEN acc ELSE Append(acc, cur))
       ELSE TokensRec(s, i + 1, Append(cur, s[i]), acc)

\* The tokens of a string: its maximal runs of characters that are neither
\* space nor tab, in order.
TokensOf(s) == TokensRec(s, 1, <<>>, <<>>)

\* C8: for every non-empty command string, size() equals the number of tokens
\* in it (the maximal runs of non-space, non-tab characters).
C8_SizeIsTokenCount ==
  orig # <<>> => size(View) = Len(TokensOf(orig))

\* C9: for a command string with k tokens, operator[](i) with 0 <= i < k
\* returns a NUL-terminated string equal to the i-th token, whatever leading,
\* trailing or repeated delimiters the string has, and operator[](i) with
\* i >= k returns a null pointer.
C9_TokenAtIndex ==
  lastIdx >= 0 =>
    LET toks == TokensOf(orig)
    IN IF lastIdx < Len(toks)
       THEN /\ lastPtr # NULLPTR
            /\ CStrAt(_theCommand, lastPtr) = toks[lastIdx + 1]
       ELSE lastPtr = NULLPTR

\* A query for token 1 of a string with two delimiters in a row returned a
\* non-null pointer.
C9_Witness ==
  /\ lastIdx = 1 /\ lastPtr # NULLPTR
  /\ \E i \in 1..(Len(orig) - 1) : IsDelimiter(orig[i]) /\ IsDelimiter(orig[i + 1])

\* C10: after any sequence of indexed queries, operator[](-1) returns a
\* string equal, byte for byte, to the original command string.
C10_WholeStringRoundTrip ==
  lastIdx = -1 => (lastPtr # NULLPTR /\ CStrAt(_theCommand, lastPtr) = orig)

\* The positions (from 1) in s at which a token starts.
TokenStarts(s) ==
  {i \in 1..Len(s) : ~IsDelimiter(s[i]) /\ (i = 1 \/ IsDelimiter(s[i - 1]))}

\* The position (from 1) at which token k (from 0) of s starts.
TokenStart(s, k) ==
  CHOOSE i \in TokenStarts(s) : Cardinality({j \in TokenStarts(s) : j < i}) = k

\* C22: operator[](-2) leaves the view in space form and returns a pointer to
\* the first character of token 1; the string there runs to the end of the
\* line, every character of a token as in the line and every delimiter a
\* non-NUL byte; when the line has no token 1 it returns a null pointer.
C22_AllParameters ==
  lastIdx = -2 =>
    /\ ~_stringHasNULLS
    /\ IF Cardinality(TokenStarts(orig)) >= 2
       THEN /\ lastPtr = TokenStart(orig, 1) - 1
            /\ LET str == CStrAt(_theCommand, lastPtr)
               IN /\ Len(str) = Len(orig) - lastPtr
                  /\ \A k \in 1..Len(str) :
                       /\ str[k] # NUL
                       /\ ~IsDelimiter(orig[lastPtr + k]) =>
                            str[k] = orig[lastPtr + k]
       ELSE lastPtr = NULLPTR

\* operator[](-2) returned the parameters of a line that has two of them,
\* with a delimiter between them.
C22_Witness ==
  /\ lastIdx = -2 /\ lastPtr # NULLPTR
  /\ Len(TokensOf(orig)) = 3
  /\ Len(CStrAt(_theCommand, lastPtr)) = 3

\* The text of token i of the view P, <<>> for a null pointer.
TokenText(P, i) ==
  LET r == OperatorIndex(P, i)
  IN IF r.ptr = NULLPTR THEN <<>> ELSE CStrAt(r.P._theCommand, r.ptr)

\* The view as it is right after construction on the command string.
Constructed == ParameterLookup(ArrayOf(orig, MaxLen))

\* C23: after any sequence of operator[] queries, size() and the recorded end
\* of string are those of the view right after construction, and a fresh
\* operator[](i), i >= 0, returns the same token text, or null, as it did
\* right after construction.
C23_TogglingStable ==
  /\ size(View) = size(Constructed)
  /\ _endOfString = Constructed._endOfString
  /\ \A i \in 0..MaxIdx :
       /\ (OperatorIndex(View, i).ptr = NULLPTR)
            <=> (OperatorIndex(Constructed, i).ptr = NULLPTR)
       /\ TokenText(View, i) = TokenText(Constructed, i)

\* A line of two tokens separated by a tab has been put back in space form
\* by a query for its parameters, so that the next indexed query substitutes
\* the delimiters again.
C23_Witness ==
  /\ lastIdx = -2 /\ ~_stringHasNULLS
  /\ size(View) = 2
  /\ \E i \in 1..Len(orig) : orig[i] = TAB /\ _theCommand[i - 1] = SP

\* ------------------------------------------------------------------------
\* Properties of the handler (Spec)
\* ------------------------------------------------------------------------
\* The handler is as a newly constructed one: no bytes buffered, the buffer
\* the empty string, no command waiting, too-long flag clear.
IsCleared ==
  /\ _bufferLength = 0
  /\ CStrAt(_inputBuffer, 0) = <<>>
  /\ ~_bufferFull
  /\ ~_command_too_long

\* C1: once addCommandChar has accepted a newline and until executeCommand is
\* called, every addCommandChar call, for any byte, returns BUFFER_FULL and
\* leaves the buffered line, the buffer length and the too-long flag unchanged.
C1_BufferFullRejects ==
  [][ /\ (~_bufferFull /\ lastOp' = "addCommandChar" /\ AddCommandChar(LF))
           => _bufferFull'
      /\ (_bufferFull /\ lastOp' # "executeCommand") => _bufferFull'
      /\ \A c \in InputChars :
           (_bufferFull /\ lastOp' = "addCommandChar" /\ AddCommandChar(c)) =>
             /\ lastResult' = BUFFER_FULL
             /\ UNCHANGED <<_inputBuffer, _bufferLength, _command_too_long>>
    ]_vars

\* A byte was rejected while a non-empty line was waiting.
C1_Witness ==
  /\ lastOp = "addCommandChar" /\ lastResult = BUFFER_FULL
  /\ _bufferFull /\ _bufferLength > 0

\* C2: after every executeCommand call that returned, whatever it returned,
\* the handler is in the state of a newly constructed one, and every call
\* returns what it returns on a handler constructed anew after the last
\* executeCommand call, and invokes the same handlers.
C2_ExecuteResets ==
  /\ (lastOp = "executeCommand" /\ lastResult # NO_RETURN) => IsCleared
  /\ lastResult = freshResult
  /\ called = freshCalled

\* An executeCommand call that followed an earlier one (which reported an
\* overflowed line) found the registered command and refused its parameters.
C2_Witness ==
  /\ lastOp = "executeCommand" /\ followsOverflow
  /\ lastResult = WRONG_NUM_OF_PARAMS
  /\ IsCleared

\* C3: when more than COMMAND_SIZE_MAX-1 ordinary bytes are ingested before a
\* newline, each excess byte is rejected with COMMAND_TOO_LONG and not stored;
\* after the newline executeCommand returns COMMAND_TOO_LONG, invokes no
\* handler and clears the state; a following line that fits is dispatched as
\* on a newly constructed handler.
C3_OverflowThenRecover ==
  [][ /\ \A c \in InputChars \ {LF, CR} :
           (~_bufferFull /\ fed >= COMMAND_SIZE_MAX - 1
              /\ lastOp' = "addCommandChar" /\ AddCommandChar(c)) =>
             /\ lastResult' = COMMAND_TOO_LONG
             /\ UNCHANGED <<_inputBuffer, _bufferLength>>
      /\ (_bufferFull /\ fed > COMMAND_SIZE_MAX - 1
            /\ lastOp' = "executeCommand" /\ ExecuteCommand) =>
             /\ lastResult' = COMMAND_TOO_LONG
             /\ called' = <<>>
             /\ IsCleared'
      /\ (_bufferFull /\ fed <= COMMAND_SIZE_MAX - 1 /\ lastExecOverflow
            /\ lastOp' = "executeCommand" /\ ExecuteCommand) =>
             /\ lastResult' \notin {COMMAND_TOO_LONG, NO_COMMAND_WAITING}
             /\ lastResult' = freshResult'
             /\ called' = freshCalled'
    ]_vars

\* The line after an overflowed one was dispatched to a handler.
C3_Witness ==
  /\ lastOp = "executeCommand" /\ followsOverflow
  /\ lastResult = NO_ERROR /\ called # <<>>

\* C4: executeCommand called while no complete line is waiting, in the Idle
\* or in the Overflowed state, returns NO_COMMAND_WAITING and invokes no
\* handler.
C4_NoCommandWaiting ==
  [][ (~_bufferFull /\ lastOp' = "executeCommand" /\ ExecuteCommand) =>
        (lastResult' = NO_COMMAND_WAITING /\ called' = <<>>) ]_vars

\* C5: no call of addCommandChar, executeCommand or registerCommand returns
\* UNKNOWN_ERROR.
C5_NeverUnknownError ==
  lastResult # UNKNOWN_ERROR

\* C6: once a byte of a line has been rejected with COMMAND_TOO_LONG, no
\* later byte of that line (any byte before the next newline) is stored in
\* the buffer, and no handler is invoked on content of that line.
C6_RestOfLineDiscarded ==
  [][ /\ \A c \in InputChars \ {LF} :
           (lineRejected /\ ~_bufferFull
              /\ lastOp' = "addCommandChar" /\ AddCommandChar(c)) =>
             UNCHANGED <<_inputBuffer, _bufferLength>>
      /\ (lineRejected /\ lastOp' = "executeCommand" /\ ExecuteCommand)
           => called' = <<>>
    ]_vars

\* The registered entry that dispatch of the waiting line uses: the first
\* one whose hash is the hash of the line's keyword (0 if there is none, or
\* the line has no keyword).
KeywordPtr == OperatorIndex(ParameterLookup(_inputBuffer), 0).ptr

MatchingIdx ==
  IF KeywordPtr = NULLPTR THEN {}
  ELSE {i \in 0..(_commandsIdx - 1) :
          _commands[i].hash =
            crc32b(ParameterLookup(_inputBuffer)._theCommand, KeywordPtr)}

FirstMatch == CHOOSE i \in MatchingIdx : \A j \in MatchingIdx : i <= j

\* C7: for a line whose keyword matches a registered entry with arity n >= 0,
\* executeCommand invokes the handler and returns NO_ERROR exactly when
\* size() - 1 equals n, and otherwise returns WRONG_NUM_OF_PARAMS without
\* invoking it; for an entry with arity -1 the handler is invoked for every
\* parameter count.
C7_ArityCheck ==
  [][ (lastOp' = "executeCommand" /\ executeCommandError(Handler) = NO_ERROR
         /\ MatchingIdx # {} /\ ExecuteCommand) =>
        LET d == _commands[FirstMatch]
            nparams == size(ParameterLookup(_inputBuffer)) - 1
        IN IF d.n = -1 \/ (d.n >= 0 /\ nparams = d.n)
           THEN lastResult' = NO_ERROR /\ called' = <<d.f>>
           ELSE lastResult' = WRONG_NUM_OF_PARAMS /\ called' = <<>>
    ]_vars

\* A line whose keyword is registered was refused for its parameter count.
C7_Witness ==
  /\ lastOp = "executeCommand"
  /\ lastResult = WRONG_NUM_OF_PARAMS /\ called = <<>>
  /\ ~followsOverflow

\* The registered entries whose hash is the hash of the string kw.
RegisteredUnder(kw) ==
  LET h == HashOf(kw)
  IN {i \in 0..(_commandsIdx - 1) : _commands[i].hash = h}

\* The least element of a non-empty set of indices.
Least(S) == CHOOSE i \in S : \A j \in S : i <= j

\* The view executeCommand constructs over the buffer and passes on.
ParamsPassed == ParameterLookup(_inputBuffer)

\* C11: feeding the bytes of a line that fits the buffer and a newline, then
\* calling executeCommand, invokes exactly the handler registered under the
\* hash of the line's first token when its arity accepts the line, passes it
\* a view whose size() and tokens are those of the bytes fed, and returns
\* NO_ERROR.
C11_RoundTrip ==
  [][ (_bufferFull /\ fed <= COMMAND_SIZE_MAX - 1
         /\ lastOp' = "executeCommand" /\ ExecuteCommand) =>
        LET toks == TokensOf(line)
        IN (toks # <<>> /\ RegisteredUnder(toks[1]) # {}) =>
             LET d == _commands[Least(RegisteredUnder(toks[1]))]
             IN (d.n = -1 \/ d.n = Len(toks) - 1) =>
                  /\ lastResult' = NO_ERROR
                  /\ called' = <<d.f>>
                  /\ size(ParamsPassed) = Len(toks)
                  /\ \A i \in 0..(Len(toks) - 1) :
                       TokenText(ParamsPassed, i) = toks[i + 1]
    ]_vars

\* C12: registerCommand on a table that holds array_size entries returns
\* OUT_OF_MEM and leaves the entry count and all entries unchanged; otherwise
\* it stores the entry after all existing ones, leaves these unchanged and
\* returns NO_ERROR; the entry count never exceeds array_size.
C12_RegisterBounded ==
  [][ /\ \A e \in RegEntries :
           (lastOp' = "registerCommand" /\ RegisterCommand(e)) =>
             IF _commandsIdx >= array_size
             THEN /\ lastResult' = OUT_OF_MEM
                  /\ UNCHANGED <<_commands, _commandsIdx>>
             ELSE /\ lastResult' = NO_ERROR
                  /\ _commandsIdx' = _commandsIdx + 1
                  /\ _commands'[_commandsIdx] = e
                  /\ \A i \in 0..(array_size - 1) :
                       i # _commandsIdx => _commands'[i] = _commands[i]
      /\ _commandsIdx' <= array_size
    ]_vars

\* A registration was refused on a full table whose last entry differs from
\* the first.
C12_Witness ==
  /\ lastOp = "registerCommand" /\ lastResult = OUT_OF_MEM
  /\ _commandsIdx = array_size
  /\ _commands[array_size - 1] # _commands[0]

\* C13: when no line is waiting, addCommandChar('\r') returns NO_ERROR and
\* changes neither the buffer, the length nor the two flags, in the Idle and
\* in the Overflowed state; so a newline after it leaves the handler that a
\* newline alone leaves, and executeCommand on it does the same.
C13_CarriageReturnIgnored ==
  [][ /\ (~_bufferFull /\ lastOp' = "addCommandChar" /\ AddCommandChar(CR)) =>
           /\ lastResult' = NO_ERROR
           /\ UNCHANGED <<_inputBuffer, _bufferLength, _bufferFull,
                          _command_too_long>>
      /\ (~_bufferFull /\ lastOp' = "addCommandChar" /\ AddCommandChar(CR)) =>
           LET viaCR == addCommandChar(Handler', LF).H
               direct == addCommandChar(Handler, LF).H
           IN /\ viaCR = direct
              /\ \A ub \in NullReadChoices(direct) :
                   executeCommand(viaCR, Table, ub)
                     = executeCommand(direct, Table, ub)
    ]_vars

\* A byte was accepted with NO_ERROR in the Overflowed state: only a carriage
\* return is.
C13_Witness ==
  /\ lastOp = "addCommandChar" /\ lastResult = NO_ERROR
  /\ ~_bufferFull /\ _command_too_long

\* C14: executeCommand on a complete line with no buffered character (a
\* newline preceded by no ordinary byte) returns EMPTY_COMMAND_STRING and
\* invokes no handler, whatever is registered.
C14_EmptyLine ==
  [][ (_bufferFull /\ fed = 0
         /\ lastOp' = "executeCommand" /\ ExecuteCommand) =>
        (lastResult' = EMPTY_COMMAND_STRING /\ called' = <<>>) ]_vars

\* An empty line was executed on a handler with a full command table.
C14_Witness ==
  /\ lastOp = "executeCommand" /\ lastResult = EMPTY_COMMAND_STRING
  /\ _commandsIdx = array_size

\* C15: executeCommand on a line whose keyword's hash is the hash of no
\* registered entry returns COMMAND_NOT_FOUND and invokes no handler, whatever
\* the number of parameters on the line.
C15_CommandNotFound ==
  [][ (_bufferFull /\ fed <= COMMAND_SIZE_MAX - 1
         /\ lastOp' = "executeCommand" /\ ExecuteCommand) =>
        LET toks == TokensOf(line)
        IN (toks # <<>> /\ RegisteredUnder(toks[1]) = {}) =>
             (lastResult' = COMMAND_NOT_FOUND /\ called' = <<>>)
    ]_vars

\* A line with a letter as its second byte was not found in a full table.
C15_Witness ==
  /\ lastOp = "executeCommand" /\ lastResult = COMMAND_NOT_FOUND
  /\ _inputBuffer[1] = UpperA
  /\ _commandsIdx = array_size

\* The string s with every upper-case letter replaced by its lower case.
Lower(s) == [i \in 1..Len(s) |-> tolower(s[i])]

RECURSIVE FeedAll(_, _)
\* The handler after addCommandChar was called on H with each byte of s.
FeedAll(H, s) ==
  IF s = <<>> THEN H ELSE FeedAll(addCommandChar(H, Head(s)).H, Tail(s))

\* C16: a keyword has the crc32b value of its lower-case form, so keywords
\* that differ only in the case of ASCII letters have the same value, and a
\* line dispatches to the same registered entry, with the same result, in
\* whatever letter case its keyword is typed.
C16_HashCaseInsensitive ==
  [][ (_bufferFull /\ fed <= COMMAND_SIZE_MAX - 1 /\ line # <<>>
         /\ lastOp' = "executeCommand" /\ ExecuteCommand) =>
        /\ HashOf(line) = HashOf(Lower(line))
        /\ LET h == FeedAll(CommandHandler, Append(Lower(line), LF))
           IN \A ub \in NullReadChoices(h) :
                LET r == executeCommand(h, Table, ub)
                IN lastResult' = r.ret /\ called' = r.called
    ]_vars

\* The handler registered under hash("aa") was invoked for a line whose
\* second letter was typed in upper case.
C16_Witness ==
  /\ lastOp = "executeCommand" /\ lastResult = NO_ERROR
  /\ called = <<3>> /\ _inputBuffer[1] = UpperA

\* C18: whenever executeCommand reaches dispatch (a waiting line that did
\* not overflow, with a non-zero buffer length), operator[](0) on the view
\* returns a non-null pointer, so the keyword hash is never computed over a
\* null pointer.
C18_KeywordExists ==
  [][ (executeCommandError(Handler) = NO_ERROR
         /\ lastOp' = "executeCommand" /\ ExecuteCommand) =>
        OperatorIndex(ParamsPassed, 0).ptr # NULLPTR ]_vars

\* C19: an executeCommand call invokes at most one handler, and invokes one
\* exactly when it returns NO_ERROR (none when it returns NO_COMMAND_WAITING,
\* COMMAND_TOO_LONG, EMPTY_COMMAND_STRING, COMMAND_NOT_FOUND or
\* WRONG_NUM_OF_PARAMS); addCommandChar and registerCommand invoke none.
C19_HandlerIffNoError ==
  /\ lastOp = "executeCommand" =>
       /\ Len(called) <= 1
       /\ (called # <<>>) <=> (lastResult = NO_ERROR)
  /\ lastOp \in {"addCommandChar", "registerCommand"} => called = <<>>

\* The handler registered with one parameter was invoked, alone, by a call
\* that returned NO_ERROR.
C19_Witness ==
  /\ lastOp = "executeCommand" /\ lastResult = NO_ERROR
  /\ called = <<1>>

\* C20: when several registered entries have the hash of the line's keyword,
\* dispatch uses the earliest registered one: its arity is the one checked
\* and its handler the only one that can be invoked, also when its arity
\* check fails and a later entry's would pass.
C20_FirstRegisteredWins ==
  [][ (_bufferFull /\ fed <= COMMAND_SIZE_MAX - 1
         /\ lastOp' = "executeCommand" /\ ExecuteCommand) =>
        LET toks == TokensOf(line)
            regd == IF toks = <<>> THEN {} ELSE RegisteredUnder(toks[1])
        IN Cardinality(regd) >= 2 =>
             LET d == _commands[Least(regd)]
             IN IF d.n = -1 \/ d.n = size(ParamsPassed) - 1
                THEN lastResult' = NO_ERROR /\ called' = <<d.f>>
                ELSE lastResult' = WRONG_NUM_OF_PARAMS /\ called' = <<>>
    ]_vars

\* A line was refused for its parameter count by the first of two entries
\* with the same hash, while the second accepts any count.
C20_Witness ==
  /\ lastOp = "executeCommand" /\ lastResult = WRONG_NUM_OF_PARAMS
  /\ _commandsIdx >= 2
  /\ _commands[0].hash = _commands[1].hash
  /\ _commands[0].n = 1 /\ _commands[1].n = -1

\* C21: in every state reached by addCommandChar and executeCommand calls
\* the buffer length is at most COMMAND_SIZE_MAX - 1 and the byte at index
\* length is NUL; the indices written, which never exceed the length, lie
\* inside the array of COMMAND_SIZE_MAX + 1 bytes, whose last byte is never
\* written at all.
C21_BufferBounds ==
  /\ DOMAIN _inputBuffer = 0..COMMAND_SIZE_MAX
  /\ _bufferLength >= 0 /\ _bufferLength <= COMMAND_SIZE_MAX - 1
  /\ _bufferLength \in DOMAIN _inputBuffer
  /\ _inputBuffer[_bufferLength] = NUL
  /\ _inputBuffer[COMMAND_SIZE_MAX] = UNINIT

\* The buffer holds COMMAND_SIZE_MAX - 1 bytes and a further byte was
\* rejected.
C21_Witness ==
  /\ lastOp = "addCommandChar" /\ lastResult = COMMAND_TOO_LONG
  /\ _bufferLength = COMMAND_SIZE_MAX - 1
  /\ _inputBuffer[COMMAND_SIZE_MAX - 1] = NUL

\* ------------------------------------------------------------------------
\* Properties of the startup commands (SpecStartup)
\* ------------------------------------------------------------------------
RECURSIVE StoredFrom(_, _)
\* The stored command: the bytes of E from index i up to the first NUL.
StoredFrom(E, i) ==
  IF i >= EEPROM_SIZE_MAX \/ E[i] = NUL THEN <<>>
  ELSE <<E[i]>> \o StoredFrom(E, i + 1)

StoredBytes == StoredFrom(eeprom, 0)

RECURSIVE LinesRec(_, _, _)
\* The complete lines of a byte string, each without its newline.
LinesRec(bytes, cur, acc) ==
  IF bytes = <<>> THEN acc
  ELSE IF Head(bytes) = LF THEN LinesRec(Tail(bytes), <<>>, Append(acc, cur))
  ELSE LinesRec(Tail(bytes), Append(cur, Head(bytes)), acc)

LinesOf(bytes) == LinesRec(bytes, <<>>, <<>>)

\* A replay that ingested the line l and executed it with outcome r.
ReplayedLine(S, l, r) ==
  [H |-> r.H, ret |-> r.ret,
   ingested |-> S.ingested \o Append(l, LF),
   results |-> Append(S.results, r.ret),
   called |-> S.called \o r.called]

RECURSIVE Replay(_, _, _, _)
\* Line by line: feed the line and its newline, execute it, and go on to
\* the next line only if the result was NO_ERROR.
Replay(T, ub, lines, S) ==
  IF lines = <<>> \/ S.ret # NO_ERROR THEN S
  ELSE Replay(T, ub, Tail(lines),
         ReplayedLine(S, Head(lines),
           executeCommand(FeedAll(S.H, Append(Head(lines), LF)), T, ub)))

\* C17: executeStartupCommands with a command stored feeds the stored bytes
\* in order through addCommandChar and executes each completed line in
\* storage order; after the first line whose executeCommand result is not
\* NO_ERROR no further byte is ingested and no further line executed, and
\* that result is returned (NO_ERROR if every line succeeded); when the
\* presence flag is not true it returns NO_COMMAND_WAITING and ingests
\* nothing.
C17_StartupReplay ==
  [][ (lastOp' = "executeStartupCommands" /\ ExecuteStartupCommands) =>
        IF eepromFlag # FLAG_TRUE
        THEN /\ lastResult' = NO_COMMAND_WAITING
             /\ ingested' = <<>> /\ results' = <<>> /\ called' = <<>>
             /\ UNCHANGED <<_inputBuffer, _bufferLength, _bufferFull,
                            _command_too_long>>
        ELSE /\ \E ub \in StartupNullReadChoices :
                  LET ref == Replay(Table, ub, LinesOf(StoredBytes),
                               [H |-> Handler, ret |-> NO_ERROR,
                                ingested |-> <<>>, results |-> <<>>,
                                called |-> <<>>])
                  IN /\ ingested' = ref.ingested
                     /\ results' = ref.results
                     /\ called' = ref.called
             /\ \A i \in 1..(Len(results') - 1) : results'[i] = NO_ERROR
             /\ lastResult' = IF results' = <<>> THEN NO_ERROR
                              ELSE results'[Len(results')]
    ]_vars

\* A replay executed a first line with success and a second one that
\* failed, and left stored bytes after it unread.
C17_Witness ==
  /\ lastOp = "executeStartupCommands"
  /\ Len(results) = 2 /\ results[1] = NO_ERROR /\ results[2] # NO_ERROR
  /\ lastResult = results[2]
  /\ Len(ingested) < Len(StoredBytes)

\* C24: once wipeStartupCommand has been called, executeStartupCommands
\* replays only what storeStartupCommand stored after the last wipe: every
\* byte it passes to addCommandChar comes from an index of the stored command
\* area that was written since that wipe, whether the stores appended or not,
\* and it ingests and executes nothing if nothing was stored since.
C24_WipedNeverReplayed ==
  [][ (wiped /\ lastOp' = "executeStartupCommands" /\ ExecuteStartupCommands) =>
        /\ \A k \in 1..Len(ingested') : (k - 1) \in storedSinceWipe
        /\ storedSinceWipe = {} =>
             (ingested' = <<>> /\ results' = <<>> /\ called' = <<>>)
    ]_vars

====
